---- MODULE Spec2Model ----
(***************************************************************************)
(* The ballot session of the online voting portal: the App shell (login,   *)
(* voting, thank-you views), the Login form, and the paginated Voting      *)
(* component with its asynchronous submit handler, running against the     *)
(* external store (candidates, settings, votes, voters).                   *)
(*                                                                         *)
(* Every user-visible control is one action: the guard is the condition    *)
(* under which the control is rendered, a disabled control accepts the     *)
(* click as a no-op, and an enabled one runs its handler.  Every await of  *)
(* an async handler is a step of its own, resolved by the store with       *)
(* success or error; the handler works on the state captured by the render *)
(* in which it was invoked.                                                *)
(***************************************************************************)
EXTENDS Integers, Sequences, FiniteSets, TLC

VARIABLES
  \* the store and the clock
  dbCandidates,   \* rows of table candidates, ordered by created_at
  hasVoted,       \* voters.has_voted of the voter
  deadline,       \* settings rows with key voting_deadline
  votes,          \* number of vote batches the store holds for the voter
  now,            \* the clock read by new Date()
  \* App
  view, voter,
  \* Login
  loginPc, loginVoter,
  \* Voting (the mounted instance)
  isLoading, error, candidates, positions, selections, skipped,
  currentPage, isSubmitting, showSummary,
  \* requests in flight
  loadInFlight,   \* the candidates fetch of the mounted instance
  inflight,       \* handleSubmit invocations suspended at an await
  \* history
  lastOp,         \* the most recent user action and whether it was accepted
  outcome,        \* how the most recently finished submit attempt ended, and
                  \* whether it was an attempt of the current session (cur)
  attempts,       \* submit attempts started so far
  sessInserted,   \* vote batches inserted by the attempts of this session
  sessMarked,     \* has_voted writes made by the attempts of this session
  skipRun         \* the run of consecutive skip actions on one position

vars == <<dbCandidates, hasVoted, deadline, votes, now, view, voter, loginPc,
          loginVoter, isLoading, error, candidates, positions, selections,
          skipped, currentPage, isSubmitting, showSummary, loadInFlight,
          inflight, lastOp, outcome, attempts, sessInserted, sessMarked,
          skipRun>>

storeVars == <<dbCandidates, hasVoted, deadline, votes>>
appVars == <<view, voter>>
loginVars == <<loginPc, loginVoter>>
ballotVars == <<candidates, positions, selections, skipped, currentPage>>
flagVars == <<isLoading, error, isSubmitting, showSummary, loadInFlight>>
histVars == <<outcome, attempts, sessInserted, sessMarked>>

----------------------------------------------------------------------------
\* Bounds of the model

\* the clock runs from 0 to MaxTime
MaxTime == 1
\* submit attempts that may be started in one behaviour
MaxAttempts == 2

----------------------------------------------------------------------------
\* Data

NULL == "null"

\* App: useState<Voter | null>(null); the store holds one voter row
NoVoter == [id |-> NULL, has_voted |-> FALSE]
VoterRow(flag) == [id |-> "v1", has_voted |-> flag]

\* the settings rows with key voting_deadline: none, or one holding a time
NoDeadline == <<>>

Cand(i, p) == [id |-> i, position |-> p]

\* the candidate tables the store may hold, in created_at order
Catalogs ==
  { <<>>,
    <<Cand("c1", "A")>>,
    <<Cand("c1", "A"), Cand("c2", "B"), Cand("c3", "A")>> }

DeadlineValues == {NoDeadline, <<MaxTime - 1>>}

Range(s) == {s[i] : i \in DOMAIN s}

RECURSIVE Dedup(_, _)
Dedup(s, seen) ==
  IF s = <<>> THEN <<>>
  ELSE IF Head(s) \in seen THEN Dedup(Tail(s), seen)
  ELSE <<Head(s)>> \o Dedup(Tail(s), seen \cup {Head(s)})

\* the distinct labels in the order of their last occurrence
uniquePositionsLastSeen(data) ==
  LET n == Len(data)
      d == Dedup([i \in 1 .. n |-> data[n + 1 - i].position], {})
  IN [i \in 1 .. Len(d) |-> d[Len(d) + 1 - i]]

\* [...new Set(data.map(c => c.position))]: insertion-ordered, deduplicated
uniquePositions(data) == Dedup([i \in DOMAIN data |-> data[i].position], {})

\* uniquePositions.reduce((acc, pos) => { acc[pos] = null; ... }, {})
initialSelections(ps) == [p \in Range(ps) |-> NULL]

----------------------------------------------------------------------------
\* Voting: state updates of the synchronous handlers and derived values

\* { ...prev, [key]: value }
Put(sel, key, value) == (key :> value) @@ sel

\* a select that leaves the skip mark of the position in place
selectKeepingSkip(sel, skp, position, candidateId) ==
  [selections |-> Put(sel, position, candidateId),
   skipped    |-> skp]

\* a select that leaves a position alone once it holds a candidate
selectIfUnset(sel, skp, position, candidateId) ==
  [selections |-> IF sel[position] # NULL THEN sel
                  ELSE Put(sel, position, candidateId),
   skipped    |-> skp \ {position}]

\* setSelections(prev => ({...prev, [position]: candidateId}));
\* setSkipped(prev => { next = new Set(prev); next.delete(position) })
handleSelectCandidate(sel, skp, position, candidateId) ==
  [selections |-> Put(sel, position, candidateId),
   skipped    |-> skp \ {position}]

\* a skip that marks the position skipped and never un-skips it
toggleSkipOneWay(sel, skp, position) ==
  [selections |-> Put(sel, position, NULL),
   skipped    |-> skp \cup {position}]

\* skipped position: un-skip, the selection keeps its value (s[position] ?? null);
\* otherwise: mark skipped and clear the selection
toggleSkip(sel, skp, position) ==
  IF position \in skp
    THEN [selections |-> Put(sel, position, sel[position]),
          skipped    |-> skp \ {position}]
    ELSE [selections |-> Put(sel, position, NULL),
          skipped    |-> skp \cup {position}]

\* a Next that moves on by two pages
handleNextByTwo(page, ps) == IF page < Len(ps) THEN page + 2 ELSE page

\* if (currentPage < positions.length) setCurrentPage(prev => prev + 1)
handleNext(page, ps) == IF page < Len(ps) THEN page + 1 ELSE page

\* a Back that returns to the first page
handleBackToStart(page) == 0

\* if (currentPage > 0) setCurrentPage(prev => prev - 1)
handleBack(page) == IF page > 0 THEN page - 1 ELSE page

IsSet(v) == v # NULL

\* Object.values(selections).filter(v => v !== null): the keys of selections
\* are the positions, in the order loadCandidates inserted them
filled(sel, ps) == SelectSeq([i \in DOMAIN ps |-> sel[ps[i]]], IsSet)

\* a batch that carries only the first of the candidate ids
voteBatchOfFirst(ids, voterId) ==
  [k \in DOMAIN SubSeq(ids, 1, 1) |-> [voter_id |-> voterId, candidate_id |-> ids[k]]]

\* filled.map(id => ({ voter_id: voter.id, candidate_id: id }))
voteBatch(ids, voterId) ==
  [k \in DOMAIN ids |-> [voter_id |-> voterId, candidate_id |-> ids[k]]]

\* Object.values(selections).filter(s => s !== null).length
selectedCount(sel) == Cardinality({p \in DOMAIN sel : sel[p] # NULL})

isLastPage(page, ps) == page = Len(ps)

isFirstPage(page) == page = 0

\* positions[currentPage]; undefined on the review page
currentPositionOf(page, ps) == IF page + 1 \in DOMAIN ps THEN ps[page + 1] ELSE NULL

\* an advance precondition that looks at the selection alone
isPositionSelectedNoSkip(page, ps, sel, skp) ==
  IF currentPositionOf(page, ps) # NULL
    THEN sel[currentPositionOf(page, ps)] # NULL
    ELSE TRUE

\* currentPosition ? selections[currentPosition] !== null || skipped.has(...) : true
isPositionSelected(page, ps, sel, skp) ==
  IF currentPositionOf(page, ps) # NULL
    THEN sel[currentPositionOf(page, ps)] # NULL \/ currentPositionOf(page, ps) \in skp
    ELSE TRUE

\* a Next button that is disabled while no position at all is addressed
NextDisabledUnlessAny(page, ps, sel, skp) ==
  \A p \in Range(ps) : sel[p] = NULL /\ p \notin skp

\* a Next button that is never disabled
NextNeverDisabled(page, ps, sel, skp) == FALSE

\* Next button: disabled={!isPositionSelected}
NextDisabled(page, ps, sel, skp) == ~isPositionSelected(page, ps, sel, skp)

\* Back button: disabled={isFirstPage}
BackDisabled(page) == isFirstPage(page)

\* a Submit button that stays enabled while a submission is in flight
SubmitDisabledIgnoringBusy(submitting, sel, ps) == selectedCount(sel) < Len(ps)

\* Submit button: disabled={isSubmitting || selectedCount < positions.length}
SubmitDisabled(submitting, sel, ps) == submitting \/ selectedCount(sel) < Len(ps)

\* a submit that relies on the deadline check made at login
DeadlinePassedAtLogin(settings, clock) == FALSE

\* a deadline check with the comparison reversed
DeadlinePassedReversed(settings, clock) == Len(settings) > 0 /\ clock < settings[1]

\* settings && settings.length > 0 && new Date() > new Date(settings[0].value)
DeadlinePassed(settings, clock) == Len(settings) > 0 /\ clock > settings[1]

\* a submit that goes on when the settings query has failed
ignoresDeadlineError(res) == FALSE

\* if (deadlineError) throw deadlineError
throwsDeadlineError(res) == res = "error"

\* a submit that goes on when the insert has failed
ignoresVoteError(res) == FALSE

\* if (voteError) throw voteError
throwsVoteError(res) == res = "error"

\* a submit that goes on when the update has failed
ignoresUpdateError(res) == FALSE

\* if (updateError) throw updateError
throwsUpdateError(res) == res = "error"

\* a submit without the completeness check
BallotNeverIncomplete(sel, ps) == FALSE

\* filled.length !== positions.length
BallotIncomplete(sel, ps) == Len(filled(sel, ps)) # Len(ps)

\* the selection entry of a position: a candidate id, skipped or unset
Entry(sel, skp, p) ==
  IF p \in skp THEN "skipped"
  ELSE IF sel[p] # NULL THEN sel[p]
  ELSE "unset"

currentPosition == currentPositionOf(currentPage, positions)

\* a question page that offers every candidate of the ballot
allOptions(cands, position) == DOMAIN cands

\* candidates.filter(c => c.position === currentPosition): the candidates
\* whose options a question page renders
optionsOf(cands, position) ==
  {i \in DOMAIN cands : cands[i].position = position}

\* the choice shown in the summary row of a position:
\* candidates.find(c => c.id === selections[pos]);
\* {isSkipped ? 'Skipped' : candidate?.name || '-'}
summaryChoice(cands, sel, skp, pos) ==
  IF pos \in skp THEN "Skipped"
  ELSE IF \E i \in DOMAIN cands : cands[i].id = sel[pos] THEN sel[pos]
  ELSE "-"

\* the summary row of a position: {isSkipped ? 'Abstained' : 'Voted'}
summaryLabel(skp, pos) == IF pos \in skp THEN "Abstained" ELSE "Voted"

\* a login that routes every voter to the voting view
AlwaysVotingView(loggedInVoter) == "voting"

\* App: setView(loggedInVoter.has_voted ? 'thank-you' : 'voting')
handleLoginSuccessView(loggedInVoter) ==
  IF loggedInVoter.has_voted THEN "thank-you" ELSE "voting"

----------------------------------------------------------------------------
\* Initial state: the login view, no Voting instance mounted

EmptySelections == [p \in {} |-> NULL]

\* a user action, whether its control accepted it, and for select the entry
\* its position held before
Act(name, accepted, before) == [op |-> name, ok |-> accepted, was |-> before]
Op(name, accepted) == Act(name, accepted, "-")

NoOutcome ==
  [kind |-> "none", writes |-> 0, expired |-> FALSE, incomplete |-> FALSE,
   cur |-> FALSE, dlErr |-> FALSE]

\* the useState initial values of Voting
VotingInitial ==
  /\ isLoading' = TRUE
  /\ error' = FALSE
  /\ candidates' = <<>>
  /\ positions' = <<>>
  /\ selections' = EmptySelections
  /\ skipped' = {}
  /\ currentPage' = 0
  /\ isSubmitting' = FALSE
  /\ showSummary' = FALSE

Init ==
  /\ dbCandidates \in Catalogs
  /\ hasVoted \in BOOLEAN
  /\ deadline \in DeadlineValues
  /\ votes = 0
  /\ now = 0
  /\ view = "login"
  /\ voter = NoVoter
  /\ loginPc = "idle"
  /\ loginVoter = NoVoter
  /\ isLoading = TRUE
  /\ error = FALSE
  /\ candidates = <<>>
  /\ positions = <<>>
  /\ selections = EmptySelections
  /\ skipped = {}
  /\ currentPage = 0
  /\ isSubmitting = FALSE
  /\ showSummary = FALSE
  /\ loadInFlight = FALSE
  /\ inflight = <<>>
  /\ lastOp = Op("none", TRUE)
  /\ outcome = NoOutcome
  /\ attempts = 0
  /\ sessInserted = 0
  /\ sessMarked = 0
  /\ skipRun = <<>>

----------------------------------------------------------------------------
\* The clock

\* new Date() is read only to compare it with a stored deadline; without
\* one the clock is never observed and is left where it is
Tick ==
  /\ Len(deadline) > 0
  /\ now < MaxTime
  /\ now' = now + 1
  /\ UNCHANGED <<storeVars, appVars, loginVars, ballotVars, flagVars, inflight,
                 lastOp, histVars, skipRun>>

----------------------------------------------------------------------------
\* Login.handleLogin and App.handleLoginSuccess

\* the submit button of the login form (disabled={isLoading})
LoginSubmit ==
  /\ view = "login"
  /\ loginPc = "idle"
  /\ loginPc' = "voters"
  /\ lastOp' = Op("login", TRUE)
  /\ skipRun' = <<>>
  /\ UNCHANGED <<storeVars, now, appVars, loginVoter, ballotVars, flagVars,
                 inflight, histVars>>

\* the voters query returns: an error, no row, or the voter row
LoginVotersReturn ==
  /\ loginPc = "voters"
  /\ \E res \in {"error", "none", "row"} :
       IF res = "row"
         THEN /\ loginVoter' = VoterRow(hasVoted)
              /\ loginPc' = "settings"
         ELSE /\ loginVoter' = NoVoter
              /\ loginPc' = "idle"
  /\ UNCHANGED <<storeVars, now, appVars, ballotVars, flagVars, inflight,
                 lastOp, histVars, skipRun>>

\* handleLoginSuccess: a new session starts; with view 'voting' a Voting
\* instance mounts and its effect starts loadCandidates
handleLoginSuccess(loggedInVoter) ==
  /\ voter' = loggedInVoter
  /\ view' = handleLoginSuccessView(loggedInVoter)
  /\ VotingInitial
  /\ loadInFlight' = (handleLoginSuccessView(loggedInVoter) = "voting")
  /\ inflight' = [i \in DOMAIN inflight |-> [inflight[i] EXCEPT !.cur = FALSE]]
  /\ sessInserted' = 0
  /\ sessMarked' = 0
  /\ outcome' = NoOutcome

\* the settings query returns: an error, or the rows; a passed deadline
\* refuses the login
LoginSettingsReturn ==
  /\ loginPc = "settings"
  /\ loginPc' = "idle"
  /\ loginVoter' = NoVoter
  /\ \E res \in {"error", "ok"} :
       IF res = "ok" /\ ~(Len(deadline) > 0 /\ now > deadline[1])
         THEN handleLoginSuccess(loginVoter)
         ELSE UNCHANGED <<appVars, ballotVars, flagVars, inflight,
                          sessInserted, sessMarked, outcome>>
  /\ UNCHANGED <<storeVars, now, lastOp, attempts, skipRun>>

----------------------------------------------------------------------------
\* Voting: loadCandidates

\* the candidates query of the mounted instance returns
LoadReturn ==
  /\ loadInFlight
  /\ loadInFlight' = FALSE
  /\ isLoading' = FALSE
  /\ \E res \in {"error", "ok"} :
       IF res = "ok"
         THEN /\ candidates' = dbCandidates
              /\ positions' = uniquePositions(dbCandidates)
              /\ selections' = initialSelections(uniquePositions(dbCandidates))
              /\ UNCHANGED error
         ELSE /\ error' = TRUE
              /\ UNCHANGED <<candidates, positions, selections>>
  /\ UNCHANGED <<storeVars, now, appVars, loginVars, skipped, currentPage,
                 isSubmitting, showSummary, inflight, lastOp, histVars, skipRun>>

----------------------------------------------------------------------------
\* Voting: the controls of the main UI

\* a main UI that stays rendered behind the summary
MainUIUnderSummary ==
  /\ view = "voting"
  /\ ~isLoading
  /\ ~error
  /\ Len(positions) # 0

\* a main UI that is rendered for a ballot without positions, too
MainUIWithoutEmptyCheck ==
  /\ view = "voting"
  /\ ~isLoading
  /\ ~error
  /\ ~showSummary

\* if (error) return <ErrorScreen error={error} />
ErrorScreen == view = "voting" /\ ~isLoading /\ error

\* if (positions.length === 0) return <EmptyScreen />
EmptyScreen == view = "voting" /\ ~isLoading /\ ~error /\ Len(positions) = 0

\* the early returns (loading, error, empty) and {!showSummary && ...}
MainUI ==
  /\ view = "voting"
  /\ ~isLoading
  /\ ~error
  /\ Len(positions) # 0
  /\ ~showSummary

QuestionPage == MainUI /\ ~isLastPage(currentPage, positions)

ReviewPage == MainUI /\ isLastPage(currentPage, positions)

\* the CandidateOption of candidates[i]:
\* onSelect={() => handleSelectCandidate(currentPosition, c.id)}
SelectOption(i) ==
  /\ QuestionPage
  /\ i \in optionsOf(candidates, currentPosition)
  /\ selections' =
       handleSelectCandidate(selections, skipped, currentPosition,
                             candidates[i].id).selections
  /\ skipped' =
       handleSelectCandidate(selections, skipped, currentPosition,
                             candidates[i].id).skipped
  /\ lastOp' = Act("select", TRUE, Entry(selections, skipped, currentPosition))
  /\ skipRun' = <<>>
  /\ UNCHANGED <<storeVars, now, appVars, loginVars, candidates, positions,
                 currentPage, flagVars, inflight, histVars>>

\* a CandidateOption of the current question page:
\* candidates.filter(c => c.position === currentPosition)
SelectCandidate == \E i \in DOMAIN candidates : SelectOption(i)

\* the skip button of the current question page
SkipClick ==
  /\ QuestionPage
  /\ selections' = toggleSkip(selections, skipped, currentPosition).selections
  /\ skipped' = toggleSkip(selections, skipped, currentPosition).skipped
  /\ lastOp' = Op("skip", TRUE)
  /\ skipRun' = IF skipRun = <<>>
                  THEN <<Entry(selections, skipped, currentPosition)>>
                  ELSE <<skipRun[Len(skipRun)],
                         Entry(selections, skipped, currentPosition)>>
  /\ UNCHANGED <<storeVars, now, appVars, loginVars, candidates, positions,
                 currentPage, flagVars, inflight, histVars>>

\* the Next button, rendered on question pages
NextClick ==
  /\ QuestionPage
  /\ IF NextDisabled(currentPage, positions, selections, skipped)
       THEN /\ lastOp' = Op("next", FALSE)
            /\ UNCHANGED currentPage
       ELSE /\ lastOp' = Op("next", TRUE)
            /\ currentPage' = handleNext(currentPage, positions)
  /\ skipRun' = <<>>
  /\ UNCHANGED <<storeVars, now, appVars, loginVars, candidates, positions,
                 selections, skipped, flagVars, inflight, histVars>>

\* the Back button, rendered on every page
BackClick ==
  /\ MainUI
  /\ IF BackDisabled(currentPage)
       THEN /\ lastOp' = Op("back", FALSE)
            /\ UNCHANGED currentPage
       ELSE /\ lastOp' = Op("back", TRUE)
            /\ currentPage' = handleBack(currentPage)
  /\ skipRun' = <<>>
  /\ UNCHANGED <<storeVars, now, appVars, loginVars, candidates, positions,
                 selections, skipped, flagVars, inflight, histVars>>

\* an Edit button of the review page: setCurrentPage(idx)
EditClick ==
  /\ ReviewPage
  /\ \E idx \in 0 .. Len(positions) - 1 : currentPage' = idx
  /\ lastOp' = Op("edit", TRUE)
  /\ skipRun' = <<>>
  /\ UNCHANGED <<storeVars, now, appVars, loginVars, candidates, positions,
                 selections, skipped, flagVars, inflight, histVars>>

\* the Submit button of the review page; enabled, it runs handleSubmit up to
\* its first await: setIsSubmitting(true), setError(null), the settings query
SubmitClick ==
  /\ ReviewPage
  /\ IF SubmitDisabled(isSubmitting, selections, positions)
       THEN /\ lastOp' = Op("submit", FALSE)
            /\ UNCHANGED <<isSubmitting, error, inflight, attempts>>
       ELSE /\ attempts < MaxAttempts
            /\ lastOp' = Op("submit", TRUE)
            /\ isSubmitting' = TRUE
            /\ error' = FALSE
            /\ attempts' = attempts + 1
            /\ inflight' = Append(inflight,
                 [pc |-> "settings", sel |-> selections, ps |-> positions,
                  vid |-> voter.id, batch |-> <<>>, dlErr |-> FALSE,
                  cur |-> TRUE, writes |-> 0, late |-> FALSE])
  /\ skipRun' = <<>>
  /\ UNCHANGED <<storeVars, now, appVars, loginVars, ballotVars, isLoading,
                 showSummary, loadInFlight, outcome, sessInserted, sessMarked>>

\* App.handleLogout; the Voting instance unmounts
handleLogout ==
  /\ voter' = NoVoter
  /\ view' = "login"
  /\ VotingInitial
  /\ loadInFlight' = FALSE

\* the Logout button of the Voting header and of the thank-you view
LogoutClick ==
  /\ MainUI \/ view = "thank-you"
  /\ handleLogout
  /\ lastOp' = Op("logout", TRUE)
  /\ skipRun' = <<>>
  /\ UNCHANGED <<storeVars, now, loginVars, inflight, histVars>>

\* the Continue button of the summary: setShowSummary(false); onVoteSuccess()
ContinueClick ==
  /\ view = "voting"
  /\ ~isLoading /\ ~error /\ Len(positions) # 0
  /\ showSummary
  /\ view' = "thank-you"
  /\ VotingInitial
  /\ loadInFlight' = FALSE
  /\ lastOp' = Op("continue", TRUE)
  /\ skipRun' = <<>>
  /\ UNCHANGED <<storeVars, now, voter, loginVars, inflight, histVars>>

----------------------------------------------------------------------------
\* Voting: handleSubmit after its awaits.  An attempt is the suspended
\* invocation: the selections, positions and voter id of the render that
\* started it, the vote batch it passes to the insert, whether its Voting instance belongs to the current session (cur), and
\* the number of store writes it has issued, whether it was past the deadline
\* when it went on to the insert (late), and whether it went on after its
\* settings query had failed (dlErr).

RemoveAt(s, i) == SubSeq(s, 1, i - 1) \o SubSeq(s, i + 1, Len(s))

\* an attempt whose state updates never reach the component
UpdatesDropped(a) == FALSE

\* state updates of an attempt reach its instance while it is mounted
Mounted(a) == a.cur /\ view = "voting"

\* a position of the attempt's ballot lacks a candidate id
LacksCandidate(a) == \E p \in Range(a.ps) : a.sel[p] = NULL

\* the attempt returns or throws: finally { setIsSubmitting(false) };
\* fetchFailed tells whether its settings query has just returned an error
FinishWith(i, kind, expiredNow, fetchFailed) ==
  /\ inflight' = RemoveAt(inflight, i)
  /\ isSubmitting' = IF Mounted(inflight[i]) THEN FALSE ELSE isSubmitting
  /\ outcome' = [kind |-> kind, writes |-> inflight[i].writes,
                 expired |-> expiredNow, incomplete |-> LacksCandidate(inflight[i]),
                 cur |-> inflight[i].cur,
                 dlErr |-> fetchFailed \/ inflight[i].dlErr]

Finish(i, kind, expiredNow) == FinishWith(i, kind, expiredNow, FALSE)

\* the settings query returns: deadlineError with no data, or the rows; then
\* the deadline check, the completeness check, and the insert of the vote
\* batch
SettingsReturn ==
  \E i \in DOMAIN inflight :
    /\ inflight[i].pc = "settings"
    /\ \E res \in {"error", "ok"} :
         LET settings == IF res = "ok" THEN deadline ELSE NoDeadline
             passed == res = "ok" /\ Len(deadline) > 0 /\ now > deadline[1]
         IN IF throwsDeadlineError(res)
              THEN FinishWith(i, "SubmissionError", FALSE, res = "error")
              ELSE IF DeadlinePassed(settings, now)
                THEN Finish(i, "DeadlineExpired", passed)
                ELSE IF BallotIncomplete(inflight[i].sel, inflight[i].ps)
                  THEN Finish(i, "IncompleteBallot", passed)
                  ELSE /\ inflight' = [inflight EXCEPT ![i].pc = "insert",
                                                        ![i].batch =
                                                          voteBatch(filled(inflight[i].sel,
                                                                           inflight[i].ps),
                                                                    inflight[i].vid),
                                                        ![i].writes = 1,
                                                        ![i].late = passed,
                                                        ![i].dlErr = res = "error"]
                       /\ UNCHANGED <<isSubmitting, outcome>>
    /\ UNCHANGED <<storeVars, now, appVars, loginVars, ballotVars, isLoading,
                   error, showSummary, loadInFlight, lastOp, attempts,
                   sessInserted, sessMarked, skipRun>>

\* the insert into votes returns: voteError and nothing stored, or success
\* and the batch stored; then the update of voters.has_voted
InsertReturn ==
  \E i \in DOMAIN inflight :
    /\ inflight[i].pc = "insert"
    /\ \E res \in {"error", "ok"} :
         /\ votes' = IF res = "ok" THEN votes + 1 ELSE votes
         /\ sessInserted' = IF res = "ok" /\ inflight[i].cur
                              THEN sessInserted + 1 ELSE sessInserted
         /\ IF throwsVoteError(res)
              THEN Finish(i, "SubmissionError", inflight[i].late)
              ELSE /\ inflight' = [inflight EXCEPT ![i].pc = "update",
                                                    ![i].writes = 2]
                   /\ UNCHANGED <<isSubmitting, outcome>>
    /\ UNCHANGED <<dbCandidates, hasVoted, deadline, now, appVars, loginVars,
                   ballotVars, isLoading, error, showSummary, loadInFlight,
                   lastOp, attempts, sessMarked, skipRun>>

\* the update of voters returns: updateError and nothing written, or success
\* and has_voted written; then setSubmitTime(new Date()); setShowSummary(true)
UpdateReturn ==
  \E i \in DOMAIN inflight :
    /\ inflight[i].pc = "update"
    /\ \E res \in {"error", "ok"} :
         /\ hasVoted' = IF res = "ok" THEN TRUE ELSE hasVoted
         /\ sessMarked' = IF res = "ok" /\ inflight[i].cur
                            THEN sessMarked + 1 ELSE sessMarked
         /\ IF throwsUpdateError(res)
              THEN /\ Finish(i, "SubmissionError", inflight[i].late)
                   /\ UNCHANGED showSummary
              ELSE /\ showSummary' = IF Mounted(inflight[i]) THEN TRUE
                                                             ELSE showSummary
                   /\ Finish(i, "Submitted", inflight[i].late)
    /\ UNCHANGED <<dbCandidates, deadline, votes, now, appVars, loginVars,
                   ballotVars, isLoading, error, loadInFlight, lastOp,
                   attempts, sessInserted, skipRun>>

----------------------------------------------------------------------------
\* every control a voter can operate: the login form and the buttons of the
\* Voting component
VoterControl ==
  \/ LoginSubmit
  \/ SelectCandidate
  \/ SkipClick
  \/ NextClick
  \/ BackClick
  \/ EditClick
  \/ SubmitClick
  \/ LogoutClick
  \/ ContinueClick

----------------------------------------------------------------------------
\* The portal with the paginated Voting component

Next ==
  \/ Tick
  \/ LoginSubmit
  \/ LoginVotersReturn
  \/ LoginSettingsReturn
  \/ LoadReturn
  \/ SelectCandidate
  \/ SkipClick
  \/ NextClick
  \/ BackClick
  \/ EditClick
  \/ SubmitClick
  \/ LogoutClick
  \/ ContinueClick
  \/ SettingsReturn
  \/ InsertReturn
  \/ UpdateReturn

Spec == Init /\ [][Next]_vars

\* the store answers every request: each pending call of handleSubmit
\* eventually returns
StoreAnswers ==
  /\ WF_vars(SettingsReturn)
  /\ WF_vars(InsertReturn)
  /\ WF_vars(UpdateReturn)

\* one session of the Voting component, from the mount that follows a
\* successful login of a voter who has not voted to its unmount
InitSession ==
  /\ dbCandidates \in Catalogs
  /\ hasVoted = FALSE
  /\ deadline \in DeadlineValues
  /\ votes = 0
  /\ now = 0
  /\ view = handleLoginSuccessView(VoterRow(FALSE))
  /\ voter = VoterRow(FALSE)
  /\ loginPc = "idle"
  /\ loginVoter = NoVoter
  /\ isLoading = TRUE
  /\ error = FALSE
  /\ candidates = <<>>
  /\ positions = <<>>
  /\ selections = EmptySelections
  /\ skipped = {}
  /\ currentPage = 0
  /\ isSubmitting = FALSE
  /\ showSummary = FALSE
  /\ loadInFlight = TRUE
  /\ inflight = <<>>
  /\ lastOp = Op("login", TRUE)
  /\ outcome = NoOutcome
  /\ attempts = 0
  /\ sessInserted = 0
  /\ sessMarked = 0
  /\ skipRun = <<>>

NextSession ==
  \/ Tick
  \/ LoadReturn
  \/ SelectCandidate
  \/ SkipClick
  \/ NextClick
  \/ BackClick
  \/ EditClick
  \/ SubmitClick
  \/ LogoutClick
  \/ ContinueClick
  \/ SettingsReturn
  \/ InsertReturn
  \/ UpdateReturn

SpecLive == InitSession /\ [][NextSession]_vars /\ StoreAnswers

----------------------------------------------------------------------------
\* The single-page Voting component (every position on one form, no skip,
\* no pages) under the App shell whose header carries the Logout button

\* the early returns (loading, error) of the single-page component
FormUI == view = "voting" /\ ~isLoading /\ ~error

\* setSelections(prev => ({...prev, [position]: candidateId}))
formSelectCandidate(sel, position, candidateId) == Put(sel, position, candidateId)

\* Submit button: disabled={isSubmitting}
FormSubmitDisabled(submitting) == submitting

\* a CandidateOption of any position
FormSelect ==
  /\ FormUI
  /\ \E i \in DOMAIN candidates :
       selections' = formSelectCandidate(selections, candidates[i].position,
                                         candidates[i].id)
  /\ lastOp' = Op("select", TRUE)
  /\ UNCHANGED <<storeVars, now, appVars, loginVars, candidates, positions,
                 skipped, currentPage, flagVars, inflight, histVars, skipRun>>

\* the Submit button, rendered when positions.length > 0
FormSubmitClick ==
  /\ FormUI
  /\ Len(positions) > 0
  /\ IF FormSubmitDisabled(isSubmitting)
       THEN /\ lastOp' = Op("submit", FALSE)
            /\ UNCHANGED <<isSubmitting, error, inflight, attempts>>
       ELSE /\ attempts < MaxAttempts
            /\ lastOp' = Op("submit", TRUE)
            /\ isSubmitting' = TRUE
            /\ error' = FALSE
            /\ attempts' = attempts + 1
            /\ inflight' = Append(inflight,
                 [pc |-> "settings", sel |-> selections, ps |-> positions,
                  vid |-> voter.id, batch |-> <<>>, dlErr |-> FALSE,
                  cur |-> TRUE, writes |-> 0, late |-> FALSE])
  /\ UNCHANGED <<storeVars, now, appVars, loginVars, ballotVars, isLoading,
                 showSummary, loadInFlight, outcome, sessInserted, sessMarked,
                 skipRun>>

\* the Logout button of the App header: showLogout={view !== 'login'}
FormLogoutClick ==
  /\ view # "login"
  /\ handleLogout
  /\ lastOp' = Op("logout", TRUE)
  /\ UNCHANGED <<storeVars, now, loginVars, inflight, histVars, skipRun>>

\* the deadline and completeness checks return after setIsSubmitting(false)
FormReturn(i, kind, expiredNow) ==
  /\ Finish(i, kind, expiredNow)
  /\ UNCHANGED error

\* catch: alert, setError(...); finally { setIsSubmitting(false) }
FormThrow(i, expiredNow) ==
  /\ Finish(i, "SubmissionError", expiredNow)
  /\ error' = IF Mounted(inflight[i]) THEN TRUE ELSE error

FormSettingsReturn ==
  \E i \in DOMAIN inflight :
    /\ inflight[i].pc = "settings"
    /\ \E res \in {"error", "ok"} :
         IF res = "error"
           THEN /\ FinishWith(i, "SubmissionError", FALSE, TRUE)
                /\ error' = IF Mounted(inflight[i]) THEN TRUE ELSE error
           ELSE IF DeadlinePassed(deadline, now)
             THEN FormReturn(i, "DeadlineExpired", Len(deadline) > 0 /\ now > deadline[1])
             ELSE IF BallotIncomplete(inflight[i].sel, inflight[i].ps)
               THEN FormReturn(i, "IncompleteBallot", Len(deadline) > 0 /\ now > deadline[1])
               ELSE /\ inflight' = [inflight EXCEPT ![i].pc = "insert",
                                                     ![i].batch =
                                                       voteBatch(filled(inflight[i].sel,
                                                                        inflight[i].ps),
                                                                 inflight[i].vid),
                                                     ![i].writes = 1,
                                                     ![i].late = Len(deadline) > 0 /\ now > deadline[1]]
                    /\ UNCHANGED <<isSubmitting, outcome, error>>
    /\ UNCHANGED <<storeVars, now, appVars, loginVars, ballotVars, isLoading,
                   showSummary, loadInFlight, lastOp, attempts,
                   sessInserted, sessMarked, skipRun>>

FormInsertReturn ==
  \E i \in DOMAIN inflight :
    /\ inflight[i].pc = "insert"
    /\ \E res \in {"error", "ok"} :
         IF res = "error"
           THEN /\ FormThrow(i, inflight[i].late)
                /\ UNCHANGED <<votes, sessInserted>>
           ELSE /\ votes' = votes + 1
                /\ sessInserted' = IF inflight[i].cur THEN sessInserted + 1
                                                      ELSE sessInserted
                /\ inflight' = [inflight EXCEPT ![i].pc = "update",
                                                 ![i].writes = 2]
                /\ UNCHANGED <<isSubmitting, outcome, error>>
    /\ UNCHANGED <<dbCandidates, hasVoted, deadline, now, appVars, loginVars,
                   ballotVars, isLoading, showSummary, loadInFlight,
                   lastOp, attempts, sessMarked, skipRun>>

\* on success onVoteSuccess(): App.handleVoteSuccess sets the thank-you view
\* and clears the voter, whatever is mounted by then
FormUpdateReturn ==
  \E i \in DOMAIN inflight :
    /\ inflight[i].pc = "update"
    /\ \E res \in {"error", "ok"} :
         IF res = "error"
           THEN /\ FormThrow(i, inflight[i].late)
                /\ UNCHANGED <<hasVoted, sessMarked, appVars, ballotVars,
                               isLoading, showSummary, loadInFlight>>
           ELSE /\ hasVoted' = TRUE
                /\ sessMarked' = IF inflight[i].cur THEN sessMarked + 1
                                                    ELSE sessMarked
                /\ view' = "thank-you"
                /\ voter' = NoVoter
                /\ VotingInitial
                /\ loadInFlight' = FALSE
                /\ inflight' = RemoveAt(inflight, i)
                /\ outcome' = [kind |-> "Submitted", writes |-> inflight[i].writes,
                               expired |-> inflight[i].late,
                               incomplete |-> LacksCandidate(inflight[i]),
                               cur |-> inflight[i].cur,
                               dlErr |-> inflight[i].dlErr]
    /\ UNCHANGED <<dbCandidates, deadline, votes, now, loginVars, lastOp,
                   attempts, sessInserted, skipRun>>

NextForm ==
  \/ Tick
  \/ LoginSubmit
  \/ LoginVotersReturn
  \/ LoginSettingsReturn
  \/ LoadReturn
  \/ FormSelect
  \/ FormSubmitClick
  \/ FormLogoutClick
  \/ FormSettingsReturn
  \/ FormInsertReturn
  \/ FormUpdateReturn

SpecForm == Init /\ [][NextForm]_vars

----------------------------------------------------------------------------
\* Claims

\* the attempts in flight that belong to the current session
Current == {i \in DOMAIN inflight : inflight[i].cur}

IsCandidate(e) == e \notin {"unset", "skipped", "-"}

\* C1: within one session the vote batch is inserted at most once and
\* has_voted is written at most once, over any sequence of submit attempts
C1_WrittenOncePerSession == sessInserted <= 1 /\ sessMarked <= 1

\* C2 as stated: a submit attempt on a ballot in which a position lacks a
\* candidate id ends as IncompleteBallot (unless the store fails) and has
\* issued no store write
C2_IncompleteBallotFails ==
  outcome.incomplete /\ outcome.kind # "SubmissionError" =>
    outcome.kind = "IncompleteBallot" /\ outcome.writes = 0

\* C2 amended: such an attempt issues no store write; it ends as
\* DeadlineExpired when the fetched deadline has passed, as SubmissionError
\* when the deadline fetch fails, and as IncompleteBallot otherwise
C2_IncompleteNoWrites ==
  /\ outcome.incomplete =>
       /\ outcome.writes = 0
       /\ outcome.kind \in {"IncompleteBallot", "DeadlineExpired", "SubmissionError"}
       /\ outcome.expired <=> outcome.kind = "DeadlineExpired"
  /\ \A i \in DOMAIN inflight :
       LacksCandidate(inflight[i]) =>
         inflight[i].pc = "settings" /\ inflight[i].writes = 0

C2_Witness == outcome.incomplete /\ outcome.kind = "IncompleteBallot"

\* C3: a submit attempt whose freshly fetched deadline is earlier than the
\* clock ends as DeadlineExpired and has issued no store write
C3_DeadlineExpiredNoWrites ==
  /\ outcome.expired => outcome.kind = "DeadlineExpired" /\ outcome.writes = 0
  /\ \A i \in DOMAIN inflight : ~inflight[i].late

C3_Witness == outcome.kind = "DeadlineExpired" /\ outcome.expired

\* C4: at most one submit attempt of a session is in flight at any time
C4_OneInFlight == Cardinality(Current) <= 1

\* a submit click on a complete ballot was refused while an attempt is in flight
C4_Witness ==
  /\ Current # {}
  /\ ReviewPage
  /\ selectedCount(selections) = Len(positions)
  /\ lastOp = Op("submit", FALSE)

\* C5: a voter whose has_voted flag is true at login gets the thank-you
\* view, never the voting view, and the session issues no store write
C5_VotedNeverVotes ==
  voter.has_voted =>
    /\ view # "voting"
    /\ Current = {}
    /\ sessInserted = 0 /\ sessMarked = 0

C5_Witness == voter.has_voted /\ view = "thank-you"

\* C6: no position is both skipped and holding a candidate id
C6_SkipExcludesCandidate == \A p \in skipped : selections[p] = NULL

\* a skip has acted on a position that held a candidate
C6_WitnessSkip ==
  /\ lastOp.op = "skip"
  /\ IsCandidate(skipRun[Len(skipRun)])
  /\ currentPosition \in skipped

C10_DoubleSkipRestores ==
  Len(skipRun) = 2 =>
    Entry(selections, skipped, currentPosition) = skipRun[1]

\* C10 amended: two consecutive skip actions restore an unset or skipped
\* entry, and leave a position that held a candidate unset
C10_DoubleSkip ==
  Len(skipRun) = 2 =>
    Entry(selections, skipped, currentPosition) =
      IF IsCandidate(skipRun[1]) THEN "unset" ELSE skipRun[1]

C10_Witness == Len(skipRun) = 2 /\ IsCandidate(skipRun[1])

\* C11: a select of candidate c on position p, whatever entry p held, leaves
\* the entry of p exactly c, p not skipped and complete, and changes neither
\* the entry of any other position nor the current page
C11_SelectFrame ==
  [][\A i \in DOMAIN candidates :
       SelectOption(i) =>
         /\ Entry(selections', skipped', currentPosition) = candidates[i].id
         /\ currentPosition \notin skipped'
         /\ isPositionSelected(currentPage', positions', selections', skipped')
         /\ \A q \in Range(positions) \ {currentPosition} :
              /\ selections'[q] = selections[q]
              /\ q \in skipped' <=> q \in skipped
         /\ DOMAIN selections' = DOMAIN selections
         /\ currentPage' = currentPage]_vars

\* a select has replaced another candidate while another position is skipped
C11_Witness ==
  /\ QuestionPage
  /\ lastOp.op = "select"
  /\ IsCandidate(lastOp.was)
  /\ selections[currentPosition] # lastOp.was
  /\ skipped # {}

\* C12: once a submit attempt of the session has ended as DeadlineExpired,
\* the session starts no further submit attempt
C12_ExpiredIsTerminal ==
  outcome.cur /\ outcome.kind = "DeadlineExpired" => Current = {}

\* C13: when a submit attempt of the mounted session fails with
\* SubmissionError, the session is on the review page holding the selections
\* the attempt was started with, and the Submit button accepts a new attempt
C13_FailureReturnsToReview ==
  [][\A i \in DOMAIN inflight :
       ( /\ Mounted(inflight[i])
         /\ inflight' = RemoveAt(inflight, i)
         /\ outcome'.kind = "SubmissionError" ) =>
         /\ ReviewPage'
         /\ selections' = inflight[i].sel
         /\ ~SubmitDisabled(isSubmitting', selections', positions')]_vars

\* C14: while a submit attempt of the mounted session is in flight, no step
\* that leaves the Voting view mounted changes a selection entry, the
\* skipped set or the current page
C14_FrozenInFlight ==
  [][(\E i \in Current : Mounted(inflight[i])) /\ view' = "voting" =>
       UNCHANGED <<selections, skipped, currentPage>>]_vars

\* C15: the summary of a successful submit, which is started only with a
\* candidate on every position, comes with has_voted true in the store and
\* lists every position as Voted
C15_SuccessListsVoted ==
  showSummary =>
    /\ hasVoted
    /\ \A p \in Range(positions) : summaryLabel(skipped, p) = "Voted"

\* C16: the batch an attempt passes to the insert holds exactly one record
\* per position, carrying the id of the voter who submitted and the
\* candidate id the position held when Submit was clicked; no record comes
\* from a position without a candidate
C16_BatchPerPosition ==
  \A i \in DOMAIN inflight :
    inflight[i].pc \in {"insert", "update"} =>
      /\ Len(inflight[i].batch) = Len(inflight[i].ps)
      /\ \A k \in DOMAIN inflight[i].ps :
           /\ IsSet(inflight[i].sel[inflight[i].ps[k]])
           /\ inflight[i].batch[k] =
                [voter_id |-> VoterRow(FALSE).id,
                 candidate_id |-> inflight[i].sel[inflight[i].ps[k]]]

\* a batch of two records is at the insert while the live selections have
\* moved on from the submitted ones
C16_Witness ==
  \E i \in Current :
    /\ Mounted(inflight[i])
    /\ inflight[i].pc = "insert"
    /\ Len(inflight[i].batch) = 2
    /\ selections # inflight[i].sel

\* C17: the deadline decision is made when the settings query of the submit
\* returns, with the deadline stored then and the clock read then: if the
\* deadline has passed by that time the attempt ends there without a write,
\* as DeadlineExpired (as SubmissionError when the query itself fails),
\* although the login of the session found the deadline not passed
C17_FreshDeadline ==
  [][SettingsReturn /\ Len(deadline) > 0 /\ now > deadline[1] =>
       /\ Len(inflight') < Len(inflight)
       /\ outcome'.writes = 0
       /\ \/ outcome'.kind = "DeadlineExpired" /\ outcome'.expired
          \/ outcome'.kind = "SubmissionError" /\ ~outcome'.expired]_vars

\* a session that was let in by the login check has its submit refused as
\* DeadlineExpired
C17_Witness ==
  /\ view = "voting"
  /\ ReviewPage
  /\ outcome.cur
  /\ outcome.kind = "DeadlineExpired"
  /\ lastOp = Op("submit", TRUE)
  /\ now > deadline[1]

\* C18: the current page always lies in 0 .. positions.length, and it is 0
\* when the load completes, under any sequence of Next, Back and Edit
C18_PageInRange ==
  /\ [](currentPage \in 0 .. Len(positions))
  /\ [][LoadReturn => currentPage' = 0]_vars

\* an Edit has jumped from the review page to the last question page
C18_Witness ==
  /\ lastOp = Op("edit", TRUE)
  /\ Len(positions) = 2
  /\ currentPage = 1

\* C19: a Back action on page k > 0 moves to page k - 1 whatever the entries
\* of the positions are, changes nothing on page 0, and never changes a
\* selection entry or the skipped set
C19_BackStep ==
  [][BackClick =>
       /\ currentPage' = IF currentPage > 0 THEN currentPage - 1 ELSE 0
       /\ UNCHANGED <<selections, skipped>>]_vars

\* a Back from the question page of a position that is still unset
C19_Witness ==
  /\ lastOp = Op("back", TRUE)
  /\ Len(positions) = 2
  /\ currentPage = 0
  /\ Entry(selections, skipped, positions[2]) = "unset"

\* C20: the positions list holds every position label of the loaded
\* candidates exactly once, in the order in which the labels first occur in
\* the candidate list, which is the store's list in created_at order
C20_PositionsFirstSeen ==
  LET first(l) ==
        CHOOSE i \in DOMAIN candidates :
          /\ candidates[i].position = l
          /\ \A j \in 1 .. i - 1 : candidates[j].position # l
  IN /\ Range(positions) = {candidates[i].position : i \in DOMAIN candidates}
     /\ \A i, j \in DOMAIN positions :
          i < j => /\ positions[i] # positions[j]
                   /\ first(positions[i]) < first(positions[j])
     /\ candidates # <<>> => candidates = dbCandidates

\* a load of three candidates with a repeated label has completed
C20_Witness ==
  /\ view = "voting"
  /\ ~isLoading
  /\ ~error
  /\ Len(candidates) = 3
  /\ positions = <<"A", "B">>

\* C21: a load that succeeded with no candidates leaves the session on the
\* empty screen, which is not the error screen, with no positions, no control
\* of the main UI, and no submit attempt started by the session
C21_EmptyBallot ==
  view = "voting" /\ ~isLoading /\ ~error /\ candidates = <<>> =>
    /\ EmptyScreen
    /\ ~ErrorScreen
    /\ ~MainUI
    /\ positions = <<>>
    /\ Current = {}
    /\ sessInserted = 0 /\ sessMarked = 0

\* the candidates query has returned the empty table without an error
C21_Witness ==
  /\ EmptyScreen
  /\ dbCandidates = <<>>
  /\ ~loadInFlight

\* C22: after a failed candidates fetch the session shows the load error
\* with no positions loaded, and the load can be retried: a load is pending
\* or the voter has a control to operate that leads on to one
C22_LoadErrorRetryable ==
  ErrorScreen =>
    /\ positions = <<>>
    /\ loadInFlight \/ ENABLED VoterControl

\* C23: an attempt issues the has_voted update only in the step in which its
\* insert returns success (the batch is stored); an attempt whose insert
\* fails ends there as SubmissionError with the insert as its only write,
\* and leaves has_voted and the stored votes as they were
C23_MarkAfterInsert ==
  [][\A i \in DOMAIN inflight :
       /\ ( /\ Len(inflight') = Len(inflight)
            /\ inflight'[i].pc = "update"
            /\ inflight[i].pc # "update" ) =>
            inflight[i].pc = "insert" /\ votes' = votes + 1
       /\ ( /\ inflight[i].pc = "insert"
            /\ inflight' = RemoveAt(inflight, i) ) =>
            /\ UNCHANGED <<hasVoted, votes>>
            /\ outcome'.kind = "SubmissionError"
            /\ outcome'.writes = 1]_vars

\* an attempt of the session has failed at its insert
C23_Witness ==
  /\ outcome.cur
  /\ outcome.kind = "SubmissionError"
  /\ outcome.writes = 1
  /\ votes = 0
  /\ ~hasVoted

\* C24: when the has_voted update of an attempt returns, the batch the
\* attempt inserted stays in the store; the attempt ends as Submitted only
\* with has_voted true, and a failed update leaves has_voted as it was and
\* ends the attempt as SubmissionError
C24_PartialCommit ==
  [][\A i \in DOMAIN inflight :
       ( /\ inflight[i].pc = "update"
         /\ inflight' = RemoveAt(inflight, i) ) =>
         /\ votes' = votes
         /\ votes >= 1
         /\ outcome'.writes = 2
         /\ IF outcome'.kind = "Submitted"
              THEN hasVoted'
              ELSE outcome'.kind = "SubmissionError" /\ hasVoted' = hasVoted]_vars

\* the update of the session's attempt has failed after its insert succeeded
C24_Witness ==
  /\ outcome.cur
  /\ outcome.kind = "SubmissionError"
  /\ outcome.writes = 2
  /\ sessInserted = 1
  /\ votes = 1
  /\ ~hasVoted

\* C25: the only check the controller makes against a second batch is the
\* has_voted flag read at login.  A session inserts a batch only if that
\* flag was false at its login, and the store takes every batch it is
\* handed: two attempts that have both passed their insert have left two
\* batches for the voter
C25_LoginIsTheOnlyGate ==
  /\ sessInserted >= 1 => ~voter.has_voted
  /\ \A i, j \in DOMAIN inflight :
       i # j /\ inflight[i].pc = "update" /\ inflight[j].pc = "update" =>
         votes >= 2

\* two sessions of the voter that overlap, both started while has_voted was
\* false, have each had a batch inserted
C25_Witness ==
  /\ ~hasVoted
  /\ votes = 2
  /\ sessInserted = 1
  /\ \E i, j \in DOMAIN inflight :
       /\ ~inflight[i].cur /\ inflight[i].pc = "update"
       /\ inflight[j].cur /\ inflight[j].pc = "update"

\* C26: when a submit of the mounted session succeeds, the summary shows
\* for every position the candidate whose id the attempt inserted for it
C26_SummaryEqualsBatch ==
  [][\A i \in DOMAIN inflight :
       ( /\ Mounted(inflight[i])
         /\ inflight[i].pc = "update"
         /\ inflight' = RemoveAt(inflight, i)
         /\ outcome'.kind = "Submitted" ) =>
         /\ showSummary'
         /\ \A k \in DOMAIN inflight[i].ps :
              summaryChoice(candidates', selections', skipped', inflight[i].ps[k])
                = inflight[i].batch[k].candidate_id]_vars

\* C27: while the Voting view is mounted the in-flight flag is set exactly
\* while an attempt of the session awaits a store call, so it is cleared on
\* every outcome and only by a return; and when the store answers every
\* call, every attempt in flight eventually ends, also one whose session
\* was left by a logout
C27_AttemptTerminates ==
  /\ [](view = "voting" => (isSubmitting <=> Current # {}))
  /\ isSubmitting ~> ~isSubmitting
  /\ (inflight # <<>>) ~> (inflight = <<>>)

\* an attempt of the session has ended and the flag is clear again
C27_Witness ==
  /\ view = "voting"
  /\ outcome.cur
  /\ outcome.kind # "none"
  /\ ~isSubmitting
  /\ inflight = <<>>

\* C28: an attempt whose deadline fetch returns an error ends as
\* SubmissionError without having issued a store write, and no attempt goes
\* on to the insert or the update after a failed deadline fetch
C28_DeadlineFetchError ==
  /\ outcome.dlErr => outcome.kind = "SubmissionError" /\ outcome.writes = 0
  /\ \A i \in DOMAIN inflight : ~inflight[i].dlErr

\* the deadline fetch of the session's attempt has failed
C28_Witness ==
  /\ outcome.cur
  /\ outcome.dlErr
  /\ ReviewPage
  /\ ~isSubmitting
  /\ votes = 0

\* C29: the positions that hold a selection entry are exactly the loaded
\* positions, an entry that holds a candidate id holds the id of a loaded
\* candidate of that position, and so the records of a batch are votes for
\* candidates of pairwise different positions, each the position it stands for
C29_EntriesMatchPositions ==
  /\ DOMAIN selections = Range(positions)
  /\ \A p \in DOMAIN selections :
       selections[p] # NULL =>
         \E i \in DOMAIN candidates :
           candidates[i].id = selections[p] /\ candidates[i].position = p
  /\ \A a \in DOMAIN inflight :
       \A k \in DOMAIN inflight[a].batch :
         /\ \E i \in DOMAIN dbCandidates :
              /\ dbCandidates[i].id = inflight[a].batch[k].candidate_id
              /\ dbCandidates[i].position = inflight[a].ps[k]
         /\ \A m \in DOMAIN inflight[a].batch :
              m # k => inflight[a].ps[m] # inflight[a].ps[k]

\* a batch of two votes is at the insert, one of them for the later of two
\* candidates of its position
C29_Witness ==
  \E a \in DOMAIN inflight :
    /\ Len(inflight[a].batch) = 2
    /\ inflight[a].batch[1].candidate_id = "c3"

\* C30: once an attempt of the session has ended as Submitted (has_voted
\* written), the main UI with its select, skip, navigation and submit
\* controls is not rendered, only the summary or the thank-you view, and no
\* attempt of the session is in flight to issue a store write
C30_SubmittedIsTerminal ==
  sessMarked >= 1 =>
    /\ ~MainUI
    /\ view = "voting" => showSummary
    /\ ~ENABLED (SelectCandidate \/ SkipClick \/ NextClick \/ BackClick
                   \/ EditClick \/ SubmitClick)
    /\ Current = {}

\* the summary of a successful submit is shown
C30_Witness ==
  /\ sessMarked = 1
  /\ view = "voting"
  /\ showSummary
  /\ hasVoted

====
